---------------------------- MODULE Spec2Model ----------------------------
(***************************************************************************)
(* Student Record Management System (src/srms.py): the in-memory record    *)
(* store of class SRMS, its JSON snapshot, and CSV export / import.        *)
(*                                                                         *)
(* Text is a sequence of one-character strings, so that trimming, the      *)
(* digit test and the number conversions are computed rather than assumed. *)
(* Marks are modelled as integers: the decimal texts of the model are an   *)
(* optional minus sign followed by digits.                                 *)
(***************************************************************************)
EXTENDS Integers, Sequences, FiniteSets, TLC

(***************************************************************************)
(* Bounds of the model.                                                    *)
(***************************************************************************)
\* Largest number of records a store holds in the model.
MaxStudents == 3
\* Largest number of data rows the environment writes into a CSV file.
MaxRows == 2

(***************************************************************************)
(* Text: str.strip, str.isdigit, int(), float(), str().                    *)
(***************************************************************************)
Digits == <<"0", "1", "2", "3", "4", "5", "6", "7", "8", "9">>

\* The value None (a missing CSV cell), as a cell that is no text.
None == <<"None">>

IsDigitChar(c) == \E d \in 1..10 : Digits[d] = c

DigitVal(c) == (CHOOSE d \in 1..10 : Digits[d] = c) - 1

RECURSIVE LStrip(_)
LStrip(t) == IF t # <<>> /\ Head(t) = " " THEN LStrip(Tail(t)) ELSE t

RECURSIVE RStrip(_)
RStrip(t) ==
    IF t # <<>> /\ t[Len(t)] = " " THEN RStrip(SubSeq(t, 1, Len(t) - 1)) ELSE t

\* str.strip(): leading and trailing blanks removed.
Strip(t) == RStrip(LStrip(t))

\* str.isdigit(): non-empty and made of decimal digits only.
IsDigit(t) == t # <<>> /\ \A j \in 1..Len(t) : IsDigitChar(t[j])

RECURSIVE ToInt(_)
\* int(t) for a text of digits.
ToInt(t) == IF t = <<>> THEN 0 ELSE 10 * ToInt(SubSeq(t, 1, Len(t) - 1)) + DigitVal(t[Len(t)])

\* Whether float(t) succeeds: blanks around an optionally signed digit text.
IsNumeric(t) ==
    LET u == Strip(t)
    IN  \/ IsDigit(u)
        \/ u # <<>> /\ Head(u) = "-" /\ IsDigit(Tail(u))

\* float(t) for a text float() accepts.
Float(t) ==
    LET u == Strip(t)
    IN  IF Head(u) = "-" THEN 0 - ToInt(Tail(u)) ELSE ToInt(u)

RECURSIVE NatStr(_)
NatStr(n) == IF n < 10 THEN <<Digits[n + 1]>> ELSE NatStr(n \div 10) \o <<Digits[(n % 10) + 1]>>

\* str(n) of a number: the text csv.DictWriter writes for it.
Str(n) == IF n < 0 THEN <<"-">> \o NatStr(0 - n) ELSE NatStr(n)

(***************************************************************************)
(* State.                                                                  *)
(***************************************************************************)
VARIABLES
    students,   \* students[self]: the list self.students of SRMS instance self
    data_file,  \* data_file[self]: the path of the instance's JSON snapshot
    json,       \* json[path]: the JSON files, [exists, data]
    csv,        \* the CSV file, [exists, header, rows]
    frame,      \* the running import_csv call: [pc, self, i, policy, validate, reader]
    summary,    \* the summary dict of the running or last import_csv call
    last,       \* the last operation and what it returned: [op, self, ret, count, note]
    race,       \* two callers inside the reassign branch: [preempt, t[c]: [pc, p, new_roll]]
    plan        \* the validate_marks arguments of a caller's consecutive import_csv calls

vars == <<students, data_file, json, csv, frame, summary, last, race, plan>>

\* The SRMS instances of the model: the store, and a second one built later.
Instances == {1, 2}

\* The snapshot paths: DATA_FILE and another one.
Paths == {"students.json", "fresh.json"}

DATA_FILE == "students.json"

\* The dataclass Student.
Student(roll_no, name, class_name, marks) ==
    [roll_no |-> roll_no, name |-> name, class_name |-> class_name, marks |-> marks]

Fields == {"roll_no", "name", "class_name", "marks"}

NoFile == [exists |-> FALSE, data |-> <<>>]

NoCsv == [exists |-> FALSE, header |-> <<>>, rows |-> <<>>]

NoFrame ==
    [pc |-> "idle", self |-> 1, i |-> 0, policy |-> "", validate |-> FALSE, reader |-> NoCsv]

EmptySummary ==
    [read_rows |-> 0, imported |-> 0, skipped_duplicates |-> 0, overwritten |-> 0,
     reassigned |-> 0, invalid_rows |-> 0, errors |-> <<>>]

\* What an operation returned: ret is its boolean result, count the number of
\* rows export_csv reports.
Returned(op, self, ret, count) ==
    [op |-> op, self |-> self, ret |-> ret, count |-> count, note |-> ""]

\* The call raised that exception instead of returning.
Raised(op, self, error) ==
    [op |-> op, self |-> self, ret |-> FALSE, count |-> 0, note |-> error]

\* One iteration of import_csv's loop has run and incremented that counter.
RowDone(self, counter) ==
    [op |-> "import_row", self |-> self, ret |-> TRUE, count |-> 0, note |-> counter]

Idle == frame.pc = "idle"

\* No caller has consecutive import_csv calls in mind.
NoPlan == <<>>

\* The callers of the model that run the reassign branch on the same store.
Callers == {1, 2}

\* No caller is inside the reassign branch.
NoRace ==
    [preempt |-> FALSE,
     t |-> [c \in Callers |-> [pc |-> "idle", p |-> <<>>, new_roll |-> 0]]]

(***************************************************************************)
(* Persistence (JSON).                                                     *)
(***************************************************************************)
\* _load: the records of the snapshot, or the list as it is without one.
Load(file, current) == IF file.exists THEN file.data ELSE current

\* A save that writes the list the store held before the operation.
SaveStale(self, list, ok) ==
    IF ok
    THEN json' = [json EXCEPT ![data_file[self]] = [exists |-> TRUE, data |-> students[self]]]
    ELSE UNCHANGED json

\* _save: the snapshot rewritten with the whole list; a failed open is caught
\* and leaves the file as it was.
Save(self, list, ok) ==
    IF ok
    THEN json' = [json EXCEPT ![data_file[self]] = [exists |-> TRUE, data |-> list]]
    ELSE UNCHANGED json

\* SRMS.__init__: the instance is built on a snapshot path and loads it.
SRMS_init(self, path) ==
    /\ Idle
    /\ students' = [students EXCEPT ![self] = Load(json[path], <<>>)]
    /\ data_file' = [data_file EXCEPT ![self] = path]
    /\ last' = Returned("init", self, TRUE, 0)
    /\ summary' = EmptySummary
    /\ UNCHANGED <<json, csv, frame, race, plan>>

(***************************************************************************)
(* Core operations.                                                        *)
(***************************************************************************)
\* The index of the first record with that roll number, 0 when there is none.
FirstIndex(list, roll_no) ==
    IF \E j \in 1..Len(list) : list[j].roll_no = roll_no
    THEN CHOOSE j \in 1..Len(list) :
            /\ list[j].roll_no = roll_no
            /\ \A k \in 1..(j - 1) : list[k].roll_no # roll_no
    ELSE 0

\* A lookup that looks at the first record only.
FoundFirstOnly(list, roll_no) == list # <<>> /\ list[1].roll_no = roll_no

\* get_student_by_roll: whether a record is found (the record is list[FirstIndex]).
Found(list, roll_no) == FirstIndex(list, roll_no) # 0

\* An add_student that takes the record back out and returns False when the
\* snapshot cannot be written.
add_student_rollback(self, student, ok) ==
    /\ Idle
    /\ IF Found(students[self], student.roll_no) \/ ~ok
       THEN /\ last' = Returned("add_student", self, FALSE, 0)
            /\ UNCHANGED <<students, json>>
       ELSE /\ Len(students[self]) < MaxStudents
            /\ students' = [students EXCEPT ![self] = Append(@, student)]
            /\ Save(self, students'[self], ok)
            /\ last' = Returned("add_student", self, TRUE, 0)
    /\ summary' = EmptySummary
    /\ UNCHANGED <<data_file, csv, frame, race, plan>>

\* add_student: refused when the roll number is taken, else appended and saved.
add_student(self, student, ok) ==
    /\ Idle
    /\ IF Found(students[self], student.roll_no)
       THEN /\ last' = Returned("add_student", self, FALSE, 0)
            /\ UNCHANGED <<students, json>>
       ELSE /\ Len(students[self]) < MaxStudents
            /\ students' = [students EXCEPT ![self] = Append(@, student)]
            /\ Save(self, students'[self], ok)
            /\ last' = Returned("add_student", self, TRUE, 0)
    /\ summary' = EmptySummary
    /\ UNCHANGED <<data_file, csv, frame, race, plan>>

\* hasattr(s, k) for a Student.
HasAttr(k) == k \in Fields

RECURSIVE SetAttrsNoneToo(_, _)
\* The loop without its test for None: a None value is assigned as well.
SetAttrsNoneToo(s, kwargs) ==
    IF kwargs = <<>>
    THEN s
    ELSE LET kv == Head(kwargs)
             t == IF HasAttr(kv.k) THEN [s EXCEPT ![kv.k] = kv.v] ELSE s
         IN  SetAttrsNoneToo(t, Tail(kwargs))

RECURSIVE SetAttrs(_, _)
\* The loop over kwargs.items(): setattr for each known attribute given a value.
SetAttrs(s, kwargs) ==
    IF kwargs = <<>>
    THEN s
    ELSE LET kv == Head(kwargs)
             t == IF HasAttr(kv.k) /\ ~kv.none THEN [s EXCEPT ![kv.k] = kv.v] ELSE s
         IN  SetAttrs(t, Tail(kwargs))

\* A signature under which a roll_no keyword lands in **kwargs.
BindsAnything(kwargs) == TRUE

\* Whether the call binds **kwargs: a keyword named roll_no is the second
\* parameter given twice, and Python raises TypeError before the body runs.
Binds(kwargs) == \A n \in 1..Len(kwargs) : kwargs[n].k # "roll_no"

update_student(self, roll_no, kwargs, ok) ==
    /\ Idle
    /\ LET j == FirstIndex(students[self], roll_no)
       IN  IF ~Binds(kwargs)
           THEN /\ last' = Raised("update_student", self, "TypeError")
                /\ UNCHANGED <<students, json>>
           ELSE IF j = 0
           THEN /\ last' = Returned("update_student", self, FALSE, 0)
                /\ UNCHANGED <<students, json>>
           ELSE /\ students' = [students EXCEPT ![self][j] = SetAttrs(@, kwargs)]
                /\ Save(self, students'[self], ok)
                /\ last' = Returned("update_student", self, TRUE, 0)
    /\ summary' = EmptySummary
    /\ UNCHANGED <<data_file, csv, frame, race, plan>>

\* A removal that drops the last record of the list, whatever j is.
RemoveLast(list, j) == SubSeq(list, 1, Len(list) - 1)

\* list.remove(s): the list without its element at index j.
Remove(list, j) == SubSeq(list, 1, j - 1) \o SubSeq(list, j + 1, Len(list))

delete_student(self, roll_no, ok) ==
    /\ Idle
    /\ LET j == FirstIndex(students[self], roll_no)
       IN  IF j = 0
           THEN /\ last' = Returned("delete_student", self, FALSE, 0)
                /\ UNCHANGED <<students, json>>
           ELSE /\ students' = [students EXCEPT ![self] = Remove(@, j)]
                /\ Save(self, students'[self], ok)
                /\ last' = Returned("delete_student", self, TRUE, 0)
    /\ summary' = EmptySummary
    /\ UNCHANGED <<data_file, csv, frame, race, plan>>

\* An insertion that appends without looking at the roll numbers.
InsertAtEnd(sorted, s) == Append(sorted, s)

\* list_students: the records sorted by roll number (sorted() is stable).
RECURSIVE Insert(_, _)
Insert(sorted, s) ==
    IF sorted = <<>> THEN <<s>>
    ELSE IF sorted[Len(sorted)].roll_no <= s.roll_no
         THEN Append(sorted, s)
         ELSE Append(Insert(SubSeq(sorted, 1, Len(sorted) - 1), s), sorted[Len(sorted)])

\* A listing that hands out the list in the order it is kept.
list_students_unsorted(list) == list

RECURSIVE list_students(_)
list_students(list) ==
    IF list = <<>> THEN <<>>
    ELSE Insert(list_students(SubSeq(list, 1, Len(list) - 1)), list[Len(list)])

\* The menu's "View All Students": list_students is called and its result
\* printed; count is the number of records it returned.
view_students(self) ==
    /\ Idle
    /\ last' = Returned("list_students", self, TRUE, Len(list_students(students[self])))
    /\ summary' = EmptySummary
    /\ UNCHANGED <<students, data_file, json, csv, frame, race, plan>>

(***************************************************************************)
(* CSV export.                                                             *)
(***************************************************************************)
\* The fieldnames of the DictWriter, in their fixed order.
ExportHeader == <<"roll_no", "name", "class_name", "marks">>

\* A row written with the name and class_name cells in each other's place.
ExportRowSwapped(s) == <<Str(s.roll_no), s.class_name, s.name, Str(s.marks)>>

\* writer.writerow(asdict(s)): the cells of one record, numbers as str() gives them.
ExportRow(s) == <<Str(s.roll_no), s.name, s.class_name, Str(s.marks)>>

export_csv(self, ok) ==
    /\ Idle
    /\ IF ok
       THEN LET sorted == list_students(students[self])
            IN  /\ csv' = [exists |-> TRUE, header |-> ExportHeader,
                           rows |-> [j \in 1..Len(sorted) |-> ExportRow(sorted[j])]]
                /\ last' = Returned("export_csv", self, TRUE, Len(sorted))
       ELSE /\ UNCHANGED csv
            /\ last' = Returned("export_csv", self, FALSE, 0)
    /\ summary' = EmptySummary
    /\ UNCHANGED <<students, data_file, json, frame, race, plan>>

(***************************************************************************)
(* CSV import.                                                             *)
(***************************************************************************)
\* The column of a field name in the header, 0 when the header lacks it.
ColumnOf(header, name) ==
    IF \E j \in 1..Len(header) : header[j] = name
    THEN CHOOSE j \in 1..Len(header) : header[j] = name
    ELSE 0

\* csv.DictReader's row.get(name): the cell under that field name, None when the
\* row is too short to have one.
Get(header, row, name) ==
    LET j == ColumnOf(header, name)
    IN  IF j = 0 \/ j > Len(row) THEN None ELSE row[j]

\* A header test that wants exactly the four names, in the export's order.
HeaderExact(header) == header = <<"roll_no", "name", "class_name", "marks">>

\* required.issubset(set(reader.fieldnames or [])).
HeaderOk(header) == \A name \in Fields : ColumnOf(header, name) # 0

\* A fresh roll number that is the largest one, not the one after it.
next_free_roll_max(list) ==
    IF list = <<>> THEN 1
    ELSE CHOOSE m \in {list[j].roll_no : j \in 1..Len(list)} :
            \A j \in 1..Len(list) : list[j].roll_no <= m

\* A fresh roll number taken from the number of records.
next_free_roll_count(list) == Len(list) + 1

\* next_free_roll.
next_free_roll(list) ==
    IF list = <<>> THEN 1
    ELSE (CHOOSE m \in {list[j].roll_no : j \in 1..Len(list)} :
            \A j \in 1..Len(list) : list[j].roll_no <= m) + 1

Invalid(reason) ==
    [ok |-> FALSE, reason |-> reason, roll_no |-> 0, name |-> <<>>, class_name |-> <<>>,
     marks |-> 0]

\* A range test that excludes the two ends.
InRangeExclusive(marks) == 0 < marks /\ marks < 100

\* 0.0 <= marks <= 100.0.
InRange(marks) == 0 <= marks /\ marks <= 100

\* Lines 153-174 of one loop iteration: the row's cells read and validated. The
\* result is the parsed record, or the message of the exception raised.
ParseRow(header, row, validate_marks) ==
    LET roll_no_cell == Get(header, row, "roll_no")
        name_cell == Get(header, row, "name")
        class_cell == Get(header, row, "class_name")
        marks_cell == Get(header, row, "marks")
        roll_no_raw == Strip(roll_no_cell)
        name == IF name_cell = None THEN <<>> ELSE Strip(name_cell)
        class_name == IF class_cell = None THEN <<>> ELSE Strip(class_cell)
        marks_raw == Strip(marks_cell)
    IN  IF roll_no_cell = None \/ marks_cell = None
        THEN Invalid("'NoneType' object has no attribute 'strip'")
        ELSE IF ~IsDigit(roll_no_raw)
        THEN Invalid("roll_no must be an integer")
        ELSE IF ~IsNumeric(marks_raw)
        THEN Invalid("marks must be numeric")
        ELSE IF validate_marks /\ ~InRange(Float(marks_raw))
        THEN Invalid("marks must be between 0 and 100")
        ELSE IF name = <<>>
        THEN Invalid("name cannot be empty")
        ELSE IF class_name = <<>>
        THEN Invalid("class_name cannot be empty")
        ELSE [ok |-> TRUE, reason |-> "", roll_no |-> ToInt(roll_no_raw), name |-> name,
              class_name |-> class_name, marks |-> Float(marks_raw)]

\* summary[counter] += 1.
Count(sum, counter) == [sum EXCEPT ![counter] = @ + 1]

\* An except clause that records the message and counts nothing.
RowErrorUncounted(sum, line, reason) ==
    [sum EXCEPT !.errors = Append(@, [line |-> line, reason |-> reason])]

\* The except clause of the row: invalid_rows += 1 and the message appended.
RowError(sum, line, reason) ==
    [Count(sum, "invalid_rows") EXCEPT
        !.errors = Append(@, [line |-> line, reason |-> reason])]

\* The Student built from the parsed row p under that roll number.
Incoming(roll_no, p) == Student(roll_no, p.name, p.class_name, p.marks)

\* What a row does: the list and the summary after it, and the counter it
\* incremented. j is the index of the existing record, 0 without one.

\* No existing record: the row is appended under its own roll number.
Imported(list, sum, j, p) ==
    [list |-> Append(list, Incoming(p.roll_no, p)), sum |-> Count(sum, "imported"),
     counter |-> "imported"]

\* A skip that counts the row as skipped and assigns its values all the same.
SkippedButAssigned(list, sum, j, p) ==
    [list |-> [list EXCEPT ![j] = Student(list[j].roll_no, p.name, p.class_name, p.marks)],
     sum |-> Count(sum, "skipped_duplicates"), counter |-> "skipped_duplicates"]

\* A skip that counts the row as skipped and appends it all the same.
SkippedButAppended(list, sum, j, p) ==
    [list |-> Append(list, Incoming(p.roll_no, p)), sum |-> Count(sum, "skipped_duplicates"),
     counter |-> "skipped_duplicates"]

\* duplicate_policy == "skip".
Skipped(list, sum, j, p) ==
    [list |-> list, sum |-> Count(sum, "skipped_duplicates"),
     counter |-> "skipped_duplicates"]

\* An overwrite that leaves the marks of the existing record.
OverwrittenButMarks(list, sum, j, p) ==
    [list |-> [list EXCEPT ![j] = Student(list[j].roll_no, p.name, p.class_name,
                                         list[j].marks)],
     sum |-> Count(sum, "overwritten"), counter |-> "overwritten"]

\* An overwrite that counts the row and leaves the record as it was.
OverwrittenCountedOnly(list, sum, j, p) ==
    [list |-> list, sum |-> Count(sum, "overwritten"), counter |-> "overwritten"]

\* duplicate_policy == "overwrite": name, class_name and marks of the existing
\* record are assigned.
Overwritten(list, sum, j, p) ==
    [list |-> [list EXCEPT ![j] = Incoming(list[j].roll_no, p)],
     sum |-> Count(sum, "overwritten"), counter |-> "overwritten"]

\* A reassignment that writes the row over the record it collides with.
ReassignedOverExisting(list, sum, j, p) ==
    [list |-> [list EXCEPT ![j] = Incoming(list[j].roll_no, p)],
     sum |-> Count(sum, "reassigned"), counter |-> "reassigned"]

\* A reassignment that takes the roll number after the row's own.
ReassignedNextToRow(list, sum, j, p) ==
    [list |-> Append(list, Incoming(p.roll_no + 1, p)),
     sum |-> Count(sum, "reassigned"), counter |-> "reassigned"]

\* duplicate_policy == "reassign": the row is appended under next_free_roll().
Reassigned(list, sum, j, p) ==
    [list |-> Append(list, Incoming(next_free_roll(list), p)),
     sum |-> Count(sum, "reassigned"), counter |-> "reassigned"]

\* An except clause that takes the row back out of read_rows.
RejectedUnread(list, sum, line, reason) ==
    [list |-> list,
     sum |-> [RowError(sum, line, reason) EXCEPT !.read_rows = @ - 1],
     counter |-> "invalid_rows"]

\* A row that raised: caught by the row's except clause.
Rejected(list, sum, line, reason) ==
    [list |-> list, sum |-> RowError(sum, line, reason), counter |-> "invalid_rows"]

\* A resolution that does not look at the outcome of the validation.
ResolveRowUnchecked(list, sum, line, p, duplicate_policy) ==
    LET j == FirstIndex(list, p.roll_no)
    IN  IF j = 0 THEN Imported(list, sum, j, p)
        ELSE IF duplicate_policy = "skip" THEN Skipped(list, sum, j, p)
        ELSE IF duplicate_policy = "overwrite" THEN Overwritten(list, sum, j, p)
        ELSE IF duplicate_policy = "reassign" THEN Reassigned(list, sum, j, p)
        ELSE Rejected(list, sum, line, "Unknown duplicate_policy")

\* Lines 176-198: the parsed row resolved against the list. An unknown policy
\* raises ValueError inside the row's try, for a row whose roll number exists.
ResolveRow(list, sum, line, p, duplicate_policy) ==
    LET j == FirstIndex(list, p.roll_no)
    IN  IF ~p.ok THEN Rejected(list, sum, line, p.reason)
        ELSE IF j = 0 THEN Imported(list, sum, j, p)
        ELSE IF duplicate_policy = "skip" THEN Skipped(list, sum, j, p)
        ELSE IF duplicate_policy = "overwrite" THEN Overwritten(list, sum, j, p)
        ELSE IF duplicate_policy = "reassign" THEN Reassigned(list, sum, j, p)
        ELSE Rejected(list, sum, line, "Unknown duplicate_policy")

\* import_csv up to the loop: the summary is made, the file at csv_path (file)
\* is looked for, opened and its header read. Without the file or the required
\* headers the call returns.
import_open(self, file, duplicate_policy, validate_marks) ==
    /\ Idle
    /\ IF ~file.exists
       THEN /\ summary' = [EmptySummary EXCEPT
                              !.errors = <<[line |-> 0, reason |-> "File not found."]>>]
            /\ last' = Returned("import_csv", self, FALSE, 0)
            /\ UNCHANGED frame
       ELSE IF ~HeaderOk(file.header)
       THEN /\ summary' = [EmptySummary EXCEPT
                              !.errors = <<[line |-> 0, reason |-> "CSV must contain headers"]>>]
            /\ last' = Returned("import_csv", self, FALSE, 0)
            /\ UNCHANGED frame
       ELSE /\ Len(students[self]) + Len(file.rows) <= MaxStudents
            /\ summary' = EmptySummary
            /\ frame' = [pc |-> "rows", self |-> self, i |-> 1,
                         policy |-> duplicate_policy, validate |-> validate_marks,
                         reader |-> file]
            /\ last' = Returned("import_open", self, TRUE, 0)
    /\ UNCHANGED <<students, data_file, json, csv, race, plan>>

\* One iteration of the loop over the reader, for the data row on line i + 1.
import_row ==
    /\ frame.pc = "rows"
    /\ frame.i <= Len(frame.reader.rows)
    /\ LET self == frame.self
           p == ParseRow(frame.reader.header, frame.reader.rows[frame.i], frame.validate)
           r == ResolveRow(students[self], Count(summary, "read_rows"), frame.i + 1, p,
                           frame.policy)
       IN  /\ students' = [students EXCEPT ![self] = r.list]
           /\ summary' = r.sum
           /\ last' = RowDone(self, r.counter)
    /\ frame' = [frame EXCEPT !.i = @ + 1]
    /\ UNCHANGED <<data_file, json, csv, race, plan>>

\* An end of the loop that returns the summary without saving the list.
import_finish_unsaved(ok) ==
    /\ frame.pc = "rows"
    /\ frame.i > Len(frame.reader.rows)
    /\ last' = Returned("import_csv", frame.self, TRUE, 0)
    /\ frame' = NoFrame
    /\ UNCHANGED <<students, data_file, json, csv, summary, race, plan>>

\* The reader is exhausted: the list is saved once and the summary returned.
import_finish(ok) ==
    /\ frame.pc = "rows"
    /\ frame.i > Len(frame.reader.rows)
    /\ Save(frame.self, students[frame.self], ok)
    /\ last' = Returned("import_csv", frame.self, TRUE, 0)
    /\ frame' = NoFrame
    /\ UNCHANGED <<students, data_file, csv, summary, race, plan>>

(***************************************************************************)
(* Inputs.                                                                 *)
(***************************************************************************)
\* A text of one character.
T(c) == <<c>>

\* The records handed to add_student: two with the same roll number, one
\* with marks outside 0..100.
StudentPool ==
    { Student(1, T("A"), T("X"), 50),
      Student(1, T("B"), T("Y"), 99),
      Student(2, T("B"), T("X"), 150) }

RollPool == {1, 2, 3}

\* One keyword argument of update_student: its name and its value, or None.
Kw(k, v) == [k |-> k, none |-> FALSE, v |-> v]

KwNone(k) == [k |-> k, none |-> TRUE, v |-> None]

\* The keyword arguments handed to update_student.
KwargsPool ==
    << <<Kw("name", T("B"))>>,
       <<KwNone("name"), Kw("class_name", T("Y")), Kw("marks", 99)>>,
       <<Kw("marks", 150), Kw("roll_no", 2)>>,
       <<Kw("grade", 7)>> >>

RECURSIVE SeqsUpTo(_, _)
\* The sequences of at most n elements of S.
SeqsUpTo(S, n) ==
    IF n = 0 THEN {<<>>}
    ELSE LET shorter == SeqsUpTo(S, n - 1)
         IN  shorter \cup {Append(q, x) : q \in shorter, x \in S}

\* Data rows, cells in the order of the file's header.
RowPool ==
    { <<T("1"), T("A"), T("X"), <<"5", "0">> >>,
      << <<" ", "1">>, <<"B", " ">>, T("Y"), <<"1", "0", "0">> >>,
      <<T("2"), T("B"), T("X"), <<"1", "5", "0">> >>,
      <<T("A"), T("1"), T("X"), T("0")>>,
      <<T("3"), T("A"), T("X"), T("x")>>,
      <<T("3"), T(" "), T("X"), T("5")>>,
      <<T("3"), T("A"), <<>>, T("5")>>,
      <<T("3"), T("A")>> }

\* Headers other than the exported one: the name and roll number columns
\* swapped and a column added, and a header without the marks column.
SwappedHeader == <<"name", "roll_no", "class_name", "marks", "remarks">>

ShortHeader == <<"roll_no", "name", "class_name">>

OtherRowPool ==
    { <<T("A"), T("1"), T("X"), T("0")>>,
      <<T("B"), T("2"), T("Y"), T("7"), T("z")>> }

CsvFile(header, rows) == [exists |-> TRUE, header |-> header, rows |-> rows]

\* The CSV files found by import_csv.
CsvPool ==
    {NoCsv}
    \cup {CsvFile(ExportHeader, rows) : rows \in SeqsUpTo(RowPool, MaxRows)}
    \cup {CsvFile(h, rows) : h \in {SwappedHeader, ShortHeader},
                             rows \in SeqsUpTo(OtherRowPool, MaxRows)}

\* The CSV files the caller of the store imports: rows whose values are those
\* of StudentPool, and one invalid row.
SmallRowPool ==
    { <<T("1"), T("B"), T("Y"), <<"9", "9">> >>,
      <<T("2"), T("B"), T("X"), <<"1", "5", "0">> >>,
      <<T("3"), <<>>, T("X"), T("5")>> }

SmallCsvPool ==
    {NoCsv} \cup {CsvFile(ExportHeader, rows) : rows \in SeqsUpTo(SmallRowPool, MaxRows)}

\* The snapshots a store is constructed from, each one a list the store's
\* operations produce.
SnapshotPool ==
    { <<>>,
      <<Student(1, T("A"), T("X"), 50)>>,
      <<Student(2, T("B"), T("X"), 150)>>,
      <<Student(2, T("B"), T("X"), 150), Student(1, T("A"), T("X"), 50)>>,
      <<Student(1, T("A"), T("X"), 50), Student(3, T("C"), T("Z"), 7)>> }

PolicyPool == {"skip", "overwrite", "reassign", "merge"}

(***************************************************************************)
(* The store: one SRMS on DATA_FILE, no snapshot yet; the core operations  *)
(* and imports of the caller's CSV files, in any order.                    *)
(***************************************************************************)
Construct(snapshot, file) ==
    /\ json = [path \in Paths |-> IF path = DATA_FILE THEN snapshot ELSE NoFile]
    /\ data_file = [self \in Instances |-> IF self = 1 THEN DATA_FILE ELSE "fresh.json"]
    /\ students = [self \in Instances |-> IF self = 1 THEN Load(snapshot, <<>>) ELSE <<>>]
    /\ csv = file
    /\ frame = NoFrame
    /\ summary = EmptySummary
    /\ last = Returned("init", 1, TRUE, 0)
    /\ race = NoRace
    /\ plan = NoPlan

Init == Construct(NoFile, NoCsv)

Next ==
    \/ \E s \in StudentPool : add_student(1, s, TRUE)
    \/ \E r \in RollPool, n \in 1..Len(KwargsPool) : update_student(1, r, KwargsPool[n], TRUE)
    \/ \E r \in RollPool : delete_student(1, r, TRUE)
    \/ view_students(1)
    \/ \E file \in SmallCsvPool, policy \in PolicyPool, validate \in BOOLEAN :
            import_open(1, file, policy, validate)
    \/ import_row
    \/ import_finish(TRUE)

Spec == Init /\ [][Next]_vars

\* The persistence test: after any operations of the first instance a second
\* instance is constructed on the same snapshot path, and is then inspected.
Reloaded == last.op = "init" /\ last.self = 2

NextReload ==
    \/ ~Reloaded /\ Next
    \/ ~Reloaded /\ SRMS_init(2, DATA_FILE)

SpecReload == Init /\ [][NextReload]_vars

\* The CSV files imported while the snapshot cannot be written: one data row
\* each.
OneRowCsvPool == {CsvFile(ExportHeader, <<row>>) : row \in SmallRowPool}

\* The store constructed from a snapshot whose file then refuses every write
\* (its directory is gone, or it became read-only): each _save fails.
InitSaveFail ==
    \E list \in SnapshotPool :
        Construct(IF list = <<>> THEN NoFile ELSE [exists |-> TRUE, data |-> list], NoCsv)

NextSaveFail ==
    \/ \E s \in StudentPool : add_student(1, s, FALSE)
    \/ \E r \in RollPool, n \in 1..Len(KwargsPool) :
            update_student(1, r, KwargsPool[n], FALSE)
    \/ \E r \in RollPool : delete_student(1, r, FALSE)
    \/ \E file \in OneRowCsvPool, policy \in {"overwrite", "reassign"} :
            import_open(1, file, policy, FALSE)
    \/ import_row
    \/ import_finish(FALSE)

SpecSaveFail == InitSaveFail /\ [][NextSaveFail]_vars

(***************************************************************************)
(* Import: a store constructed from a snapshot, and a CSV file imported    *)
(* any number of times under any policy.                                   *)
(***************************************************************************)
InitImport ==
    \E list \in SnapshotPool, file \in CsvPool :
        Construct(IF list = <<>> THEN NoFile ELSE [exists |-> TRUE, data |-> list], file)

NextImport ==
    \/ \E policy \in PolicyPool, validate \in BOOLEAN : import_open(1, csv, policy, validate)
    \/ import_row
    \/ import_finish(TRUE)

SpecImport == InitImport /\ [][NextImport]_vars

(***************************************************************************)
(* Two callers run the reassign branch of import_csv on the same store,    *)
(* one row each. The branch is two statements, new_roll = next_free_roll() *)
(* and self.students.append(...): callers that are threads can be          *)
(* preempted between them, callers that run one after the other cannot.    *)
(***************************************************************************)
\* The valid rows the callers hold, parsed.
RacePool ==
    {p \in {ParseRow(ExportHeader, row, FALSE) : row \in RowPool \cup SmallRowPool} : p.ok}

InitRace ==
    \E list \in SnapshotPool, preempt \in BOOLEAN, rows \in [Callers -> RacePool] :
        /\ Len(list) + Cardinality(Callers) <= MaxStudents
        /\ \A c \in Callers : Found(list, rows[c].roll_no)
        /\ json = [path \in Paths |->
                      IF path = DATA_FILE THEN [exists |-> TRUE, data |-> list] ELSE NoFile]
        /\ data_file = [self \in Instances |-> IF self = 1 THEN DATA_FILE ELSE "fresh.json"]
        /\ students = [self \in Instances |-> IF self = 1 THEN list ELSE <<>>]
        /\ csv = NoCsv
        /\ frame = NoFrame
        /\ summary = EmptySummary
        /\ last = Returned("init", 1, TRUE, 0)
        /\ race = [preempt |-> preempt,
                   t |-> [c \in Callers |-> [pc |-> "row", p |-> rows[c], new_roll |-> 0]]]
        /\ plan = NoPlan

\* A reassignment that appends the row under its own roll number.
reassign_row_own_key(c) ==
    /\ ~race.preempt
    /\ race.t[c].pc = "row"
    /\ students' = [students EXCEPT ![1] = Append(@, Incoming(race.t[c].p.roll_no, race.t[c].p))]
    /\ race' = [race EXCEPT !.t[c].pc = "done", !.t[c].new_roll = race.t[c].p.roll_no]
    /\ UNCHANGED <<data_file, json, csv, frame, summary, last, plan>>

\* The branch run without preemption: the fresh roll number is computed and
\* the row appended under it in one step.
reassign_row(c) ==
    /\ ~race.preempt
    /\ race.t[c].pc = "row"
    /\ LET list == students[1]
           r == Reassigned(list, EmptySummary, FirstIndex(list, race.t[c].p.roll_no), race.t[c].p)
       IN  /\ students' = [students EXCEPT ![1] = r.list]
           /\ race' = [race EXCEPT !.t[c].pc = "done",
                                   !.t[c].new_roll = r.list[Len(r.list)].roll_no]
    /\ UNCHANGED <<data_file, json, csv, frame, summary, last, plan>>

\* new_roll = next_free_roll(), by a caller that can be preempted after it.
reassign_compute(c) ==
    /\ race.preempt
    /\ race.t[c].pc = "row"
    /\ race' = [race EXCEPT !.t[c].pc = "computed",
                            !.t[c].new_roll = next_free_roll(students[1])]
    /\ UNCHANGED <<students, data_file, json, csv, frame, summary, last, plan>>

\* self.students.append(Student(new_roll, name, class_name, marks)).
reassign_append(c) ==
    /\ race.preempt
    /\ race.t[c].pc = "computed"
    /\ students' = [students EXCEPT ![1] = Append(@, Incoming(race.t[c].new_roll, race.t[c].p))]
    /\ race' = [race EXCEPT !.t[c].pc = "done"]
    /\ UNCHANGED <<data_file, json, csv, frame, summary, last, plan>>

NextRace ==
    \/ \E c \in Callers : reassign_row(c)
    \/ \E c \in Callers : reassign_compute(c)
    \/ \E c \in Callers : reassign_append(c)

SpecRace == InitRace /\ [][NextRace]_vars

(***************************************************************************)
(* A caller imports the same CSV file twice in a row under skip, as the     *)
(* menu's import choice taken twice does.                                   *)
(***************************************************************************)
InitTwice ==
    \E list \in SnapshotPool, file \in SmallCsvPool \ {NoCsv}, first, second \in BOOLEAN :
        /\ json = [path \in Paths |->
                      IF path = DATA_FILE /\ list # <<>>
                      THEN [exists |-> TRUE, data |-> list] ELSE NoFile]
        /\ data_file = [self \in Instances |-> IF self = 1 THEN DATA_FILE ELSE "fresh.json"]
        /\ students = [self \in Instances |-> IF self = 1 THEN list ELSE <<>>]
        /\ csv = file
        /\ frame = NoFrame
        /\ summary = EmptySummary
        /\ last = Returned("init", 1, TRUE, 0)
        /\ race = NoRace
        /\ plan = [validate |-> <<first, second>>, n |-> 1]

\* The caller makes call n: the first on the store as constructed, the second
\* once it has turned to it.
import_call ==
    /\ last.op = (IF plan.n = 1 THEN "init" ELSE "import_csv")
    /\ import_open(1, csv, "skip", plan.validate[plan.n])

\* The first call has returned its summary: the caller turns to the second.
call_again ==
    /\ Idle
    /\ plan.n = 1
    /\ last.op = "import_csv" /\ last.ret = TRUE
    /\ plan' = [plan EXCEPT !.n = 2]
    /\ UNCHANGED <<students, data_file, json, csv, frame, summary, last, race>>

NextTwice ==
    \/ import_call
    \/ call_again
    \/ import_row
    \/ import_finish(TRUE)

SpecTwice == InitTwice /\ [][NextTwice]_vars

(***************************************************************************)
(* Properties of the store.                                                *)
(***************************************************************************)
\* The roll numbers of a list, in list order.
Rolls(list) == [n \in 1..Len(list) |-> list[n].roll_no]

\* The snapshot _save writes for that list.
Snapshot(list) == [exists |-> TRUE, data |-> list]

\* C1: after any sequence of add_student, update_student, delete_student and
\* import_csv calls from an empty store, no two records of the store have the
\* same roll number.
NoDuplicateKeys ==
    \A m, n \in 1..Len(students[1]) :
        m # n => students[1][m].roll_no # students[1][n].roll_no

\* A reassigning import has just given a third record a roll number of its own.
NoDuplicateKeysWitness ==
    /\ last.op = "import_row" /\ last.note = "reassigned"
    /\ Len(students[1]) = 3

\* C8: no operation changes the roll number of a record that stays in the
\* store. A record is followed by its place in the list: append and setattr
\* keep the places, list.remove closes the gap of the record it removes.
KeyImmutable ==
    [][LET before == students[1]
           after == students'[1]
       IN  IF Len(after) < Len(before)
           THEN \E j \in 1..Len(before) : Rolls(after) = Rolls(Remove(before, j))
           ELSE \A n \in 1..Len(before) : after[n].roll_no = before[n].roll_no]_vars

\* update_student was refused a roll_no keyword, or an import has overwritten
\* a record, in a store of two records.
KeyImmutableWitness ==
    /\ Len(students[1]) >= 2
    /\ \/ last.op = "update_student" /\ last.note = "TypeError"
       \/ last.op = "import_row" /\ last.note = "overwritten"

\* C9: add_student returns False and changes neither the list nor the snapshot
\* when a record with the roll number exists; otherwise it appends the record,
\* leaves the others as they are, saves, and returns True.
AddStudentContract ==
    [][\A s \in StudentPool :
        add_student(1, s, TRUE) =>
            IF \E n \in 1..Len(students[1]) : students[1][n].roll_no = s.roll_no
            THEN /\ last'.ret = FALSE
                 /\ students' = students
                 /\ json' = json
            ELSE /\ last'.ret = TRUE
                 /\ students'[1] = Append(students[1], s)
                 /\ json'[DATA_FILE] = Snapshot(students'[1])]_vars

\* An add_student was refused by a store that holds records.
AddStudentWitness ==
    /\ last.op = "add_student" /\ last.ret = FALSE
    /\ Len(students[1]) >= 2
    /\ json[DATA_FILE] = Snapshot(students[1])

\* Whether the keyword arguments give field f a value that is not None, and
\* the value they give.
Supplied(kwargs, f) == \E n \in 1..Len(kwargs) : kwargs[n].k = f /\ ~kwargs[n].none

ValueOf(kwargs, f) ==
    kwargs[CHOOSE n \in 1..Len(kwargs) : kwargs[n].k = f /\ ~kwargs[n].none].v

\* C10: update_student returns False without any mutation when the roll number
\* is absent; otherwise it assigns exactly the fields given a value that is
\* not None, leaves the other fields and the other records as they are, saves,
\* and returns True.
UpdateStudentContract ==
    [][\A r \in RollPool, k \in 1..Len(KwargsPool) :
        LET kwargs == KwargsPool[k]
            list == students[1]
            held == {n \in 1..Len(list) : list[n].roll_no = r}
        IN  (Binds(kwargs) /\ update_student(1, r, kwargs, TRUE)) =>
                IF held = {}
                THEN /\ last'.ret = FALSE
                     /\ students' = students
                     /\ json' = json
                ELSE LET j == CHOOSE n \in held : \A m \in held : n <= m
                     IN  /\ last'.ret = TRUE
                         /\ Len(students'[1]) = Len(list)
                         /\ \A n \in 1..Len(list) : n # j => students'[1][n] = list[n]
                         /\ \A f \in Fields :
                                students'[1][j][f] =
                                    IF Supplied(kwargs, f) THEN ValueOf(kwargs, f)
                                    ELSE list[j][f]
                         /\ json'[DATA_FILE] = Snapshot(students'[1])]_vars

\* An update_student has returned True on a record of a store of two.
UpdateStudentWitness ==
    /\ last.op = "update_student" /\ last.ret = TRUE
    /\ Len(students[1]) >= 2

\* C11: delete_student returns False without any mutation when the roll number
\* is absent; otherwise it removes exactly the record with that roll number
\* (none is found afterwards, the other records stay, in their order), saves,
\* and returns True.
DeleteStudentContract ==
    [][\A r \in RollPool :
        LET list == students[1]
            held == {n \in 1..Len(list) : list[n].roll_no = r}
        IN  delete_student(1, r, TRUE) =>
                IF held = {}
                THEN /\ last'.ret = FALSE
                     /\ students' = students
                     /\ json' = json
                ELSE LET j == CHOOSE n \in held : \A m \in held : n <= m
                         after == students'[1]
                     IN  /\ last'.ret = TRUE
                         /\ Len(after) = Len(list) - 1
                         /\ \A n \in 1..Len(after) :
                                after[n] = IF n < j THEN list[n] ELSE list[n + 1]
                         /\ \A n \in 1..Len(after) : after[n].roll_no # r
                         /\ json'[DATA_FILE] = Snapshot(after)]_vars

\* A delete_student has returned True and left two records behind.
DeleteStudentWitness ==
    /\ last.op = "delete_student" /\ last.ret = TRUE
    /\ Len(students[1]) = 2

\* How many times record s occurs in a list.
Occurrences(list, s) == Cardinality({n \in 1..Len(list) : list[n] = s})

\* C12: list_students returns every record of the store exactly once, in
\* ascending order of roll number, whatever the order of the list, and the
\* call leaves the store and the snapshot as they are.
ListStudentsSorted ==
    [][view_students(1) =>
        LET list == students[1]
            listed == list_students(list)
        IN  /\ students' = students
            /\ json' = json
            /\ last'.count = Len(list)
            /\ Len(listed) = Len(list)
            /\ \A n \in 1..Len(list) : Occurrences(listed, list[n]) = 1
            /\ \A n \in 1..(Len(listed) - 1) :
                    listed[n].roll_no < listed[n + 1].roll_no]_vars

\* The records of a store whose list is not in ascending order were listed.
ListStudentsWitness ==
    /\ last.op = "list_students"
    /\ Len(students[1]) = 3
    /\ students[1][1].roll_no > students[1][2].roll_no

SummaryBalanced ==
    summary.read_rows =
        summary.imported + summary.skipped_duplicates + summary.overwritten
            + summary.reassigned + summary.invalid_rows

\* An import has returned after two rows, one of them invalid and one not.
SummaryBalancedWitness ==
    /\ last.op = "import_csv" /\ last.ret = TRUE
    /\ summary.read_rows = 2
    /\ summary.invalid_rows = 1

\* The errors of the summary that report the unknown policy.
UnknownPolicyErrors ==
    {n \in 1..Len(summary.errors) : summary.errors[n].reason = "Unknown duplicate_policy"}

\* C3: an unknown duplicate_policy is reported once and the import processes
\* no further row: the summary holds at most one such error, and the row it
\* names (line - 1) is the last row read.
UnknownPolicyAborts ==
    /\ Cardinality(UnknownPolicyErrors) <= 1
    /\ \A n \in UnknownPolicyErrors : summary.read_rows = summary.errors[n].line - 1

\* The row the loop of import_csv reads next, parsed.
NextRow == ParseRow(frame.reader.header, frame.reader.rows[frame.i], frame.validate)

\* The places of the list that hold the roll number of NextRow.
Holding == {n \in 1..Len(students[1]) : students[1][n].roll_no = NextRow.roll_no}

\* A loop iteration for a valid row whose roll number exists, under that policy.
DuplicateRow(policy) ==
    /\ import_row
    /\ frame.policy = policy
    /\ NextRow.ok
    /\ Holding # {}

\* The summary with read_rows and one more counter incremented, nothing else.
Counted(counter) ==
    [summary EXCEPT !.read_rows = @ + 1, ![counter] = @ + 1]

\* C4: under skip, a valid row whose roll number exists leaves every record as
\* it is, adds none, and increments skipped_duplicates only (besides read_rows).
SkipKeepsRecord ==
    [][DuplicateRow("skip") =>
        /\ students' = students
        /\ summary' = Counted("skipped_duplicates")]_vars

\* A row has been skipped whose name differs from the record's.
SkipKeepsRecordWitness ==
    /\ last.op = "import_row" /\ last.note = "skipped_duplicates"
    /\ frame.policy = "skip"
    /\ LET cells == frame.reader.rows[frame.i - 1]
       IN  \E n \in 1..Len(students[1]) :
             /\ Str(students[1][n].roll_no) = Strip(cells[1])
             /\ students[1][n].name # Strip(cells[2])

\* The cell of the row read next under that field name, trimmed.
Cell(name) == Strip(Get(frame.reader.header, frame.reader.rows[frame.i], name))

\* C5: under overwrite, right after a valid row whose roll number exists, the
\* existing record has its roll number and the row's name, class_name (both
\* trimmed) and marks (converted); the number of records is the same and
\* overwritten is incremented by one.
OverwriteAssigns ==
    [][DuplicateRow("overwrite") =>
        LET j == CHOOSE n \in Holding : \A m \in Holding : n <= m
        IN  /\ Len(students'[1]) = Len(students[1])
            /\ students'[1][j].roll_no = students[1][j].roll_no
            /\ students'[1][j].name = Cell("name")
            /\ students'[1][j].class_name = Cell("class_name")
            /\ students'[1][j].marks = Float(Cell("marks"))
            /\ summary'.overwritten = summary.overwritten + 1]_vars

\* A row has overwritten a record of a store of two.
OverwriteAssignsWitness ==
    /\ last.op = "import_row" /\ last.note = "overwritten"
    /\ Len(students[1]) = 2
    /\ summary.overwritten = 1

\* C6: under reassign, a valid row whose roll number exists leaves the records
\* as they are and appends exactly one, with the row's name, class_name and
\* marks and a roll number greater than every roll number held before the row.
ReassignAppends ==
    [][DuplicateRow("reassign") =>
        LET before == students[1]
            after == students'[1]
        IN  /\ Len(after) = Len(before) + 1
            /\ SubSeq(after, 1, Len(before)) = before
            /\ after[Len(after)].name = Cell("name")
            /\ after[Len(after)].class_name = Cell("class_name")
            /\ after[Len(after)].marks = Float(Cell("marks"))
            /\ \A n \in 1..Len(before) : after[Len(after)].roll_no > before[n].roll_no]_vars

\* A row has been reassigned in a store whose largest roll number is not its
\* number of records.
ReassignAppendsWitness ==
    /\ last.op = "import_row" /\ last.note = "reassigned"
    /\ students[1][Len(students[1])].roll_no > Len(students[1])

(***************************************************************************)
(* Round trip: a store is filled, exported, and the export imported into a *)
(* second store built on a snapshot path of its own, as the test does.     *)
(***************************************************************************)
\* The records handed to add_student: two that import_csv would accept, and
\* records with marks out of range, an empty name, a padded name and a
\* negative roll number.
RoundTripPool ==
    { Student(1, T("A"), T("X"), 50),
      Student(2, T("B"), T("Y"), 100),
      Student(2, T("B"), T("X"), 150),
      Student(3, <<>>, T("X"), 5),
      Student(3, <<" ", "A">>, T("X"), 0),
      Student(0 - 1, T("A"), T("X"), 50) }

NextRoundTrip ==
    \/ /\ ~csv.exists
       /\ \E s \in RoundTripPool : add_student(1, s, TRUE)
    \/ /\ ~csv.exists
       /\ \E r \in RollPool, k \in 1..Len(KwargsPool) :
              update_student(1, r, KwargsPool[k], TRUE)
    \/ /\ ~csv.exists
       /\ \E r \in RollPool : delete_student(1, r, TRUE)
    \/ /\ ~csv.exists
       /\ \E ok \in BOOLEAN : export_csv(1, ok)
    \/ /\ last.op = "export_csv" /\ last.ret = TRUE
       /\ SRMS_init(2, "fresh.json")
    \/ /\ last.op = "init" /\ last.self = 2
       /\ import_open(2, csv, "skip", TRUE)
    \/ import_row
    \/ import_finish(TRUE)

SpecRoundTrip == Init /\ [][NextRoundTrip]_vars

\* The export of the first store has been imported into the second.
RoundTripDone == last.op = "import_csv" /\ last.self = 2 /\ last.ret = TRUE

Tuples(list) == {list[n] : n \in 1..Len(list)}

\* A record import_csv accepts when validating: a roll number that is not
\* negative, a name and a class_name that are not empty and have no blanks
\* around them, marks within 0..100.
Importable(s) ==
    /\ s.roll_no >= 0
    /\ s.name # <<>> /\ Strip(s.name) = s.name
    /\ s.class_name # <<>> /\ Strip(s.class_name) = s.class_name
    /\ 0 <= s.marks /\ s.marks <= 100

\* C7 as stated: for every store the operations reach, the export imported
\* into a fresh store under skip, validating, gives imported == N and the
\* same set of records.
RoundTripAnyStore ==
    RoundTripDone =>
        /\ summary.imported = Len(students[1])
        /\ Tuples(students[2]) = Tuples(students[1])

\* C7 as amended: the same for every store whose records import_csv accepts
\* when validating.
RoundTripImportable ==
    (RoundTripDone /\ \A n \in 1..Len(students[1]) : Importable(students[1][n])) =>
        /\ summary.imported = Len(students[1])
        /\ Tuples(students[2]) = Tuples(students[1])

\* A store of two records import_csv accepts has made the round trip.
RoundTripWitness ==
    /\ RoundTripDone
    /\ Len(students[1]) >= 2
    /\ \A n \in 1..Len(students[1]) : Importable(students[1][n])

\* C14: an import_csv run that consumes all rows writes the snapshot once, at
\* the step that ends the loop: opening the file and each loop iteration leave
\* the snapshot as it is, and the step after the last row writes the list as
\* the rows left it, every insertion, overwrite and reassignment included.
SavedOnceAfterRows ==
    [][frame.pc = "rows" \/ frame'.pc = "rows" =>
        IF frame'.pc = "idle"
        THEN /\ frame.i = Len(frame.reader.rows) + 1
             /\ students' = students
             /\ json'[DATA_FILE] = Snapshot(students[1])
        ELSE json' = json]_vars

\* An import of two rows has returned: one row overwrote a record, the other
\* was inserted, and the snapshot holds both.
SavedOnceWitness ==
    /\ last.op = "import_csv" /\ last.ret = TRUE
    /\ summary.read_rows = 2
    /\ summary.imported = 1 /\ summary.overwritten = 1
    /\ json[DATA_FILE] = Snapshot(students[1])

\* The header of the file lacks one of the four required names.
LacksRequired(file) ==
    \E name \in Fields : \A j \in 1..Len(file.header) : file.header[j] # name

\* C15: an import_csv call whose source is missing or whose header lacks one
\* of the four required names processes no row: every counter of the summary
\* is zero, errors holds exactly one message, and store and snapshot are as
\* before. A header that has the four names, in any order and with further
\* columns, is accepted: the call goes on to the rows.
FatalPreconditions ==
    [][\A policy \in PolicyPool, validate \in BOOLEAN :
        import_open(1, csv, policy, validate) =>
            IF ~csv.exists \/ LacksRequired(csv)
            THEN /\ summary' = [EmptySummary EXCEPT !.errors = summary'.errors]
                 /\ Len(summary'.errors) = 1
                 /\ last'.op = "import_csv" /\ last'.ret = FALSE
                 /\ frame'.pc = "idle"
                 /\ students' = students
                 /\ json' = json
            ELSE /\ frame'.pc = "rows"
                 /\ frame'.reader = csv
                 /\ summary' = EmptySummary]_vars

\* An import of a file with data rows under a header without all four names
\* has returned.
FatalPreconditionsWitness ==
    /\ last.op = "import_csv" /\ last.ret = FALSE
    /\ csv.exists /\ Len(csv.rows) = 2
    /\ LacksRequired(csv)
    /\ students[1] # <<>>

\* The cell of the row read next under that field name, as the reader gives it.
RawCell(name) == Get(frame.reader.header, frame.reader.rows[frame.i], name)

\* The row read next has no cell, or an empty one after trimming, under name.
Blank(name) == RawCell(name) = None \/ Strip(RawCell(name)) = <<>>

\* The row read next has a roll number that is no integer or marks that are
\* no number.
Malformed ==
    \/ RawCell("roll_no") = None \/ ~IsDigit(Strip(RawCell("roll_no")))
    \/ RawCell("marks") = None \/ ~IsNumeric(RawCell("marks"))

\* The marks of the row read next are a number outside 0..100.
OutOfRange ==
    /\ RawCell("marks") # None /\ IsNumeric(RawCell("marks"))
    /\ Float(RawCell("marks")) < 0 \/ Float(RawCell("marks")) > 100

\* The row read next fails validation.
FailsValidation ==
    \/ Malformed
    \/ frame.validate /\ OutOfRange
    \/ Blank("name")
    \/ Blank("class_name")

\* C16: a row that fails validation (roll number not an integer, marks not a
\* number, marks out of range with validation on, name or class_name empty
\* after trimming) changes no record, increments invalid_rows only (besides
\* read_rows), appends exactly one error message, naming its line, and the
\* loop goes on to the next row.
InvalidRowIsolated ==
    [][import_row /\ FailsValidation =>
        /\ students' = students
        /\ [summary' EXCEPT !.errors = summary.errors] = Counted("invalid_rows")
        /\ Len(summary'.errors) = Len(summary.errors) + 1
        /\ SubSeq(summary'.errors, 1, Len(summary.errors)) = summary.errors
        /\ summary'.errors[Len(summary'.errors)].line = frame.i + 1
        /\ frame' = [frame EXCEPT !.i = frame.i + 1]]_vars

\* After a row with an empty name was counted invalid, the next row was
\* imported.
InvalidRowWitness ==
    /\ last.op = "import_csv" /\ last.ret = TRUE
    /\ summary.read_rows = 2 /\ summary.invalid_rows = 1 /\ summary.imported = 1
    /\ summary.errors[1] = [line |-> 2, reason |-> "name cannot be empty"]

\* C17: range enforcement is opt-in. For a row that is valid otherwise: with
\* validate_marks true and marks outside 0..100 the row is counted invalid and
\* the list stays as it is; in every other case (validate_marks false whatever
\* the marks, or marks within 0..100, the ends 0 and 100 included) the row is
\* not counted invalid under a known policy, is appended with its marks when
\* its roll number is new, and leaves a record with its marks when it
\* overwrites or is reassigned.
RangeOptIn ==
    [][import_row /\ ~Malformed /\ ~Blank("name") /\ ~Blank("class_name") =>
        LET list == students[1]
            after == students'[1]
            marks == Float(RawCell("marks"))
            row == Student(ToInt(Strip(RawCell("roll_no"))), Strip(RawCell("name")),
                           Strip(RawCell("class_name")), marks)
            new == \A n \in 1..Len(list) : list[n].roll_no # row.roll_no
        IN  IF frame.validate /\ OutOfRange
            THEN /\ after = list
                 /\ summary'.invalid_rows = summary.invalid_rows + 1
            ELSE /\ new \/ frame.policy \in {"skip", "overwrite", "reassign"} =>
                        summary'.invalid_rows = summary.invalid_rows
                 /\ new => after = Append(list, row)
                 /\ ~new /\ frame.policy \in {"overwrite", "reassign"} =>
                        \E n \in 1..Len(after) :
                            /\ after[n].marks = marks
                            /\ after[n].name = row.name
                            /\ after[n].class_name = row.class_name]_vars

\* With validation off, a row with marks 150 was appended to the list.
RangeOptInWitness ==
    /\ frame.pc = "rows" /\ ~frame.validate
    /\ last.op = "import_row" /\ last.note = "imported"
    /\ students[1][Len(students[1])].marks = 150

ExportContract ==
    [][\A ok \in BOOLEAN :
        export_csv(1, ok) =>
            LET list == students[1]
                rows == csv'.rows
            IN  /\ students' = students
                /\ json' = json
                /\ IF ok
                   THEN /\ csv'.exists
                        /\ last'.ret = TRUE
                        /\ last'.count = Len(list)
                        /\ Len(rows) = Len(list)
                        /\ \A n \in 1..Len(list) :
                            Cardinality({m \in 1..Len(rows) : rows[m] = ExportRow(list[n])}) = 1
                        /\ \A m \in 1..(Len(rows) - 1) :
                            Float(rows[m][1]) < Float(rows[m + 1][1])
                   ELSE /\ last'.ret = FALSE
                        /\ last'.count = 0
                        /\ csv' = csv]_vars

\* A store of three records whose list is not in ascending order has been
\* exported.
ExportWitness ==
    /\ last.op = "export_csv" /\ last.ret = TRUE /\ last.count = 3
    /\ Len(csv.rows) = 3
    /\ students[1][1].roll_no > students[1][2].roll_no

\* The places of the store's list that hold that roll number.
Having(roll_no) == {n \in 1..Len(students[1]) : students[1][n].roll_no = roll_no}

\* C20: when the snapshot write fails during add_student, update_student,
\* delete_student or import_csv, the mutation of the list stands and the
\* operation returns its success result: the record is appended, updated or
\* removed, the rows of the import stay applied, and the snapshot is the one
\* from before, so the list and the snapshot may differ.
SaveFailureKeepsMutation ==
    [][/\ last'.op = "add_student" =>
            \A s \in StudentPool :
                Having(s.roll_no) = {} /\ add_student(1, s, FALSE) =>
                    /\ students'[1] = Append(students[1], s)
                    /\ last'.ret = TRUE
                    /\ json' = json
       /\ last'.op = "update_student" =>
            \A r \in RollPool, k \in 1..Len(KwargsPool) :
                LET kwargs == KwargsPool[k]
                IN  Having(r) # {} /\ Binds(kwargs) /\ update_student(1, r, kwargs, FALSE) =>
                        /\ \A n \in Having(r), f \in Fields :
                                Supplied(kwargs, f) => students'[1][n][f] = ValueOf(kwargs, f)
                        /\ last'.ret = TRUE
                        /\ json' = json
       /\ last'.op = "delete_student" =>
            \A r \in RollPool :
                Having(r) # {} /\ delete_student(1, r, FALSE) =>
                    /\ Len(students'[1]) = Len(students[1]) - 1
                    /\ \A n \in 1..Len(students'[1]) : students'[1][n].roll_no # r
                    /\ last'.ret = TRUE
                    /\ json' = json
       /\ last'.op = "import_csv" /\ import_finish(FALSE) =>
            /\ students' = students
            /\ summary' = summary
            /\ last'.ret = TRUE
            /\ json' = json]_vars

\* An import has returned its summary with a row reassigned, and the snapshot
\* still holds the list the store was constructed from, one record shorter.
SaveFailureWitness ==
    /\ last.op = "import_csv" /\ last.ret = TRUE
    /\ summary.reassigned = 1
    /\ json[DATA_FILE].exists
    /\ json[DATA_FILE].data # students[1]
    /\ Len(json[DATA_FILE].data) = Len(students[1]) - 1

\* Whether k is one more than the largest roll number of a non-empty list.
OneAboveMax(list, k) ==
    /\ \E n \in 1..Len(list) : list[n].roll_no = k - 1
    /\ \A n \in 1..Len(list) : list[n].roll_no <= k - 1

\* The list the store held when the running import_csv call began: the
\* snapshot is not written before the loop ends.
BeforeImport == Load(json[DATA_FILE], <<>>)

\* C21: the fresh roll number is 1 for an empty store and otherwise one more
\* than the largest roll number held, computed from the list as it is at each
\* row: while an import under reassign has appended no row under its own roll
\* number, the k rows it reassigned are the last k records and hold the roll
\* numbers max + 1 .. max + k, max being the largest roll number held before
\* the import.
FreshKeysConsecutive ==
    /\ students[1] = <<>> => next_free_roll(students[1]) = 1
    /\ students[1] # <<>> => OneAboveMax(students[1], next_free_roll(students[1]))
    /\ frame.pc = "rows" /\ frame.policy = "reassign" /\ summary.imported = 0 =>
            LET k == summary.reassigned
                held == Len(BeforeImport)
            IN  /\ Len(students[1]) = held + k
                /\ SubSeq(students[1], 1, held) = BeforeImport
                /\ \A n \in 1..k :
                        OneAboveMax(BeforeImport, students[1][held + n].roll_no - (n - 1))

\* Two rows of one import were reassigned in a store that held one record
\* with a roll number above 1.
FreshKeysWitness ==
    /\ frame.pc = "rows" /\ frame.policy = "reassign"
    /\ summary.reassigned = 2 /\ summary.imported = 0
    /\ Len(students[1]) = 3
    /\ students[1][1].roll_no = 2
    /\ students[1][2].roll_no = 3 /\ students[1][3].roll_no = 4

\* Two records of the store have the same roll number.
SharedKey ==
    \E m, n \in 1..Len(students[1]) :
        m # n /\ students[1][m].roll_no = students[1][n].roll_no

\* C22: when computing the fresh roll number and appending under it is one
\* step of a caller, no state has two records with the same roll number; with
\* callers preempted between the two statements such a state is reachable
\* (RaceWitness), and in every such state the two callers computed the same
\* fresh roll number.
NoRaceWhenAtomic ==
    /\ ~race.preempt => ~SharedKey
    /\ race.preempt /\ SharedKey =>
            /\ \A c \in Callers : race.t[c].pc = "done"
            /\ race.t[1].new_roll = race.t[2].new_roll

\* Both preempted callers computed the fresh roll number before either
\* appended, and the store holds their two records under the same roll number.
RaceWitness ==
    /\ race.preempt
    /\ \A c \in Callers : race.t[c].pc = "done"
    /\ race.t[1].new_roll = race.t[2].new_roll
    /\ SharedKey
    /\ students[1][Len(students[1])].roll_no = students[1][Len(students[1]) - 1].roll_no

\* The cell of data row n of the file being imported under that field name.
CellAt(n, name) == Get(frame.reader.header, frame.reader.rows[n], name)

\* Data row n of the file being imported passes validation.
ValidAt(n) ==
    /\ \A name \in Fields : CellAt(n, name) # None /\ Strip(CellAt(n, name)) # <<>>
    /\ IsDigit(Strip(CellAt(n, "roll_no")))
    /\ IsNumeric(CellAt(n, "marks"))
    /\ frame.validate =>
            0 <= Float(CellAt(n, "marks")) /\ Float(CellAt(n, "marks")) <= 100

\* The roll number of data row n.
KeyAt(n) == ToInt(Strip(CellAt(n, "roll_no")))

\* The first two data rows of the file being imported are valid, have been
\* read, and have one roll number, which the store did not hold before.
TwoRowsOneNewKey ==
    /\ frame.pc = "rows" /\ frame.i = 3
    /\ ValidAt(1) /\ ValidAt(2)
    /\ KeyAt(1) = KeyAt(2)
    /\ \A n \in 1..Len(BeforeImport) : BeforeImport[n].roll_no # KeyAt(1)

\* C23: under overwrite, when two valid rows of one file have the same roll
\* number, which the store did not hold before the import, the first is
\* counted as imported and the second as overwritten, and the one record with
\* that roll number holds the name, class_name and marks of the second row.
OverwriteWithinImport ==
    TwoRowsOneNewKey /\ frame.policy = "overwrite" =>
        LET list == students[1]
            held == Len(BeforeImport)
        IN  /\ summary.imported = 1 /\ summary.overwritten = 1
            /\ summary.read_rows = 2
            /\ Len(list) = held + 1
            /\ SubSeq(list, 1, held) = BeforeImport
            /\ list[held + 1] = Student(KeyAt(2), Strip(CellAt(2, "name")),
                                        Strip(CellAt(2, "class_name")),
                                        Float(CellAt(2, "marks")))

\* Under overwrite the second of two rows with a new roll number has been
\* read, and its name differs from the first row's.
OverwriteWithinImportWitness ==
    /\ TwoRowsOneNewKey /\ frame.policy = "overwrite"
    /\ Strip(CellAt(1, "name")) # Strip(CellAt(2, "name"))
    /\ summary.overwritten = 1
    /\ BeforeImport # <<>>

\* The data rows read so far by the running import that pass validation.
ValidRead == {n \in 1..(frame.i - 1) : ValidAt(n)}

\* C24: under reassign no valid row is dropped or merged. At every point of
\* the loop the records held before the import are as they were, each valid
\* row read so far has added one record of its own, in row order, with the
\* row's name, class_name and marks, the number of records is the number
\* before plus imported + reassigned, and no two records share a roll number;
\* this includes a row whose roll number is one that an earlier row of the
\* same import was reassigned to.
ReassignKeepsEveryRow ==
    frame.pc = "rows" /\ frame.policy = "reassign" =>
        LET list == students[1]
            held == Len(BeforeImport)
        IN  /\ Len(list) = held + summary.imported + summary.reassigned
            /\ summary.imported + summary.reassigned = Cardinality(ValidRead)
            /\ SubSeq(list, 1, held) = BeforeImport
            /\ \A n \in ValidRead :
                    LET s == list[held + Cardinality({m \in ValidRead : m <= n})]
                    IN  /\ s.name = Strip(CellAt(n, "name"))
                        /\ s.class_name = Strip(CellAt(n, "class_name"))
                        /\ s.marks = Float(CellAt(n, "marks"))
            /\ ~SharedKey

\* The second row's roll number is the one the first row was reassigned to,
\* and the second row was reassigned in turn.
ReassignKeepsEveryRowWitness ==
    /\ frame.pc = "rows" /\ frame.policy = "reassign" /\ frame.i = 3
    /\ ValidAt(1) /\ ValidAt(2)
    /\ summary.reassigned = 2
    /\ Len(students[1]) = Len(BeforeImport) + 2
    /\ KeyAt(2) = students[1][Len(BeforeImport) + 1].roll_no
    /\ KeyAt(2) # students[1][Len(BeforeImport) + 2].roll_no

\* The second of the caller's two calls is in its loop, and what it has done
\* so far leaves every record as the first call left it, imports nothing and
\* counts every valid row read as skipped.
SecondRunSkipsAll ==
    /\ students[1] = BeforeImport
    /\ summary.imported = 0
    /\ summary.overwritten = 0 /\ summary.reassigned = 0
    /\ summary.skipped_duplicates = Cardinality(ValidRead)
    /\ summary.invalid_rows = (frame.i - 1) - Cardinality(ValidRead)

\* C25 as stated: the second of two import_csv calls in a row on the same
\* source under skip changes no record, imports nothing and counts every
\* valid row as skipped.
SkipTwiceAnyFlags ==
    plan.n = 2 /\ frame.pc = "rows" => SecondRunSkipsAll

\* C25: the second of two import_csv calls in a row on the same source under
\* skip and with the same validate_marks changes no record, imports nothing
\* and counts every valid row of the source as skipped.
SkipTwiceSameFlags ==
    plan.n = 2 /\ frame.pc = "rows" /\ plan.validate[1] = plan.validate[2] =>
        SecondRunSkipsAll

\* The second call, made like the first without range validation, has read
\* both rows of the file and skipped both, one of them with marks 150 that
\* the first call imported.
SkipTwiceWitness ==
    /\ plan.n = 2 /\ plan.validate = <<FALSE, FALSE>>
    /\ frame.pc = "rows" /\ frame.i = 3
    /\ summary.skipped_duplicates = 2
    /\ \E n \in 1..2 : Float(CellAt(n, "marks")) = 150
    /\ \E n \in 1..Len(students[1]) : students[1][n].marks = 150

====
